---------------------------- MODULE Spec2Model ----------------------------
(***************************************************************************)
(* Model of survey1_analysis_script.py: the three tokenizers, the          *)
(* aggregation pass compute_counters, the ranking get_sorted_list, the     *)
(* table builder build_master_dataframe and the driver process_and_save.   *)
(*                                                                         *)
(* A text cell is a sequence of surface symbols (words, ",", " ", ".").    *)
(* The spaCy pipeline `nlp` is an injected dependency; it is modelled by a *)
(* fixed lexicon that assigns each symbol the attributes the code reads    *)
(* (is_punct, is_space, is_stop, pos_, lemma_, entity or not).             *)
(* A Counter is an insertion-ordered sequence of <<token, count>> pairs,   *)
(* as a Python dict keeps its items.                                       *)
(***************************************************************************)
EXTENDS Integers, Sequences, FiniteSets

\* ------------------------------------------------------------- bounds
\* the table has at most MaxRows rows and at most MaxTexts cells that hold text
MaxRows == 2
MaxTexts == 2

\* ------------------------------------------------------------- inputs
\* a missing cell (float NaN): no text, told apart from every text
NaN == <<"<NaN>">>

ColNames == {"A", "B"}

\* "happy, happy"
T1 == <<"happy", ",", " ", "happy">>
\* "The French sat."
T2 == <<"The", "French", "sat", ".">>
\* "sat,,  French  ,happy"
T3 == <<"sat", ",", ",", " ", "French", " ", ",", "happy">>
\* "happy," followed by a run of text longer than nlp.max_length
T4 == <<"happy", ",", "LONG">>
\* a word to which the pipeline assigns no lemma
T5 == <<"Zz">>

Texts == {T1, T2, T3, T4, T5}
Cells == {NaN} \cup Texts

Policies == {"tokenize_description", "tokenize_adjective_cell", "tokenize_named_entities"}

\* ------------------------------------------------- the language model
\* nlp(text) raises ValueError when the text is longer than nlp.max_length.
nlp_raises(text) == \E p \in 1..Len(text) : text[p] = "LONG"

is_punct(w) == w \in {",", "."}
is_space(w) == w = " "
is_stop(w) == w = "The"
pos_(w) ==
  CASE w \in {"happy", "French", "Zz"} -> "ADJ"
    [] w = "sat" -> "VERB"
    [] w = "The" -> "DET"
    [] w \in {",", "."} -> "PUNCT"
    [] w = " " -> "SPACE"
    [] OTHER -> "X"
lemma_(w) ==
  CASE w = "sat" -> "sit"
    [] w = "The" -> "the"
    [] w = "Zz" -> ""
    [] OTHER -> w
is_ent(w) == w = "French"

\* str.lower()
lower(s) ==
  CASE s = "French" -> "french"
    [] OTHER -> s

\* doc.sents: the tokens of the doc cut after each "."
RECURSIVE sents(_)
sents(doc) ==
  IF doc = <<>> THEN <<>>
  ELSE LET ends == {p \in 1..Len(doc) : doc[p] = "."}
           e == IF ends = {} THEN Len(doc)
                ELSE CHOOSE p \in ends : \A q \in ends : p <= q
       IN <<SubSeq(doc, 1, e)>> \o sents(SubSeq(doc, e + 1, Len(doc)))

\* ------------------------------------------------------ the tokenizers
\* A tokenizer call yields [ok |-> TRUE, tokens |-> ...] or, when nlp raises,
\* [ok |-> FALSE, tokens |-> <<>>].
Raised == [ok |-> FALSE, tokens |-> <<>>]
Returned(toks) == [ok |-> TRUE, tokens |-> toks]

RECURSIVE description_sent(_)
description_sent(sent) ==
  IF sent = <<>> THEN <<>>
  ELSE LET token == Head(sent)
       IN IF is_punct(token) \/ is_space(token) \/ is_stop(token)
          THEN description_sent(Tail(sent))
          ELSE <<lower(lemma_(token))>> \o description_sent(Tail(sent))

RECURSIVE description_sents(_)
description_sents(ss) ==
  IF ss = <<>> THEN <<>>
  ELSE description_sent(Head(ss)) \o description_sents(Tail(ss))

tokenize_description(text) ==
  IF nlp_raises(text) THEN Raised
  ELSE Returned(description_sents(sents(text)))

\* str.split(",")
RECURSIVE split(_)
split(cell) ==
  LET commas == {p \in 1..Len(cell) : cell[p] = ","}
  IN IF commas = {} THEN <<cell>>
     ELSE LET c == CHOOSE p \in commas : \A q \in commas : p <= q
          IN <<SubSeq(cell, 1, c - 1)>> \o split(SubSeq(cell, c + 1, Len(cell)))

\* str.strip()
RECURSIVE strip(_)
strip(item) ==
  IF item = <<>> THEN <<>>
  ELSE IF is_space(Head(item)) THEN strip(Tail(item))
  ELSE IF is_space(item[Len(item)]) THEN strip(SubSeq(item, 1, Len(item) - 1))
  ELSE item

\* [item.strip() for item in cell.split(",") if item.strip()]
RECURSIVE nonempty_stripped(_)
nonempty_stripped(items) ==
  IF items = <<>> THEN <<>>
  ELSE IF strip(Head(items)) = <<>> THEN nonempty_stripped(Tail(items))
  ELSE <<strip(Head(items))>> \o nonempty_stripped(Tail(items))

candidates(cell) == nonempty_stripped(split(cell))

RECURSIVE adjective_sent(_)
adjective_sent(sent) ==
  IF sent = <<>> THEN <<>>
  ELSE LET token == Head(sent)
       IN IF pos_(token) = "ADJ" /\ ~is_stop(token) /\ ~is_punct(token)
          THEN <<lower(lemma_(token))>> \o adjective_sent(Tail(sent))
          ELSE adjective_sent(Tail(sent))

RECURSIVE adjective_sents(_)
adjective_sents(ss) ==
  IF ss = <<>> THEN <<>>
  ELSE adjective_sent(Head(ss)) \o adjective_sents(Tail(ss))

RECURSIVE adjective_cands(_)
adjective_cands(cands) ==
  IF cands = <<>> THEN Returned(<<>>)
  ELSE IF nlp_raises(Head(cands)) THEN Raised
  ELSE LET rest == adjective_cands(Tail(cands))
       IN IF rest.ok
          THEN Returned(adjective_sents(sents(Head(cands))) \o rest.tokens)
          ELSE Raised

tokenize_adjective_cell(cell) == adjective_cands(candidates(cell))

\* [ent.text for ent in doc.ents]
RECURSIVE ents(_)
ents(doc) ==
  IF doc = <<>> THEN <<>>
  ELSE IF is_ent(Head(doc)) THEN <<Head(doc)>> \o ents(Tail(doc))
  ELSE ents(Tail(doc))

tokenize_named_entities(text) ==
  IF nlp_raises(text) THEN Raised ELSE Returned(ents(text))

\* tokens = tokenize_func(cell, nlp), with a handler that swallows the error
tokenize_func_caught(func, cell) ==
  LET r == CASE func = "tokenize_description" -> tokenize_description(cell)
             [] func = "tokenize_adjective_cell" -> tokenize_adjective_cell(cell)
             [] OTHER -> tokenize_named_entities(cell)
  IN Returned(r.tokens)

\* tokens = tokenize_func(cell, nlp)
tokenize_func(func, cell) ==
  CASE func = "tokenize_description" -> tokenize_description(cell)
    [] func = "tokenize_adjective_cell" -> tokenize_adjective_cell(cell)
    [] OTHER -> tokenize_named_entities(cell)

\* The texts one tokenize_func call hands to nlp: the whole cell, or, for the
\* adjective policy, each candidate in turn
nlp_inputs(func, cell) ==
  IF func = "tokenize_adjective_cell" THEN candidates(cell) ELSE <<cell>>

\* pd.isna(cell)
isna(cell) == cell = NaN

\* One visit of a cell in which the cell is first turned into text, str(cell),
\* so that a missing cell reads "nan" and is tokenized like any other
visit_str(func, cell) ==
  IF isna(cell) THEN [skip |-> FALSE, ok |-> TRUE, tokens |-> <<"nan">>]
  ELSE LET r == tokenize_func(func, cell)
       IN [skip |-> FALSE, ok |-> r.ok, tokens |-> r.tokens]

\* One visit of a cell: a missing cell is skipped (continue), any other cell
\* is handed to tokenize_func
visit(func, cell) ==
  IF isna(cell) THEN [skip |-> TRUE, ok |-> TRUE, tokens |-> <<>>]
  ELSE LET r == tokenize_func(func, cell)
       IN [skip |-> FALSE, ok |-> r.ok, tokens |-> r.tokens]

\* ------------------------------------------------------------ Counter
Counter == <<>>

keys(c) == {c[p][1] : p \in 1..Len(c)}

\* counter[t], 0 for a missing key
get(c, t) ==
  IF t \in keys(c) THEN c[CHOOSE p \in 1..Len(c) : c[p][1] = t][2] ELSE 0

\* self[elem] = count + self.get(elem, 0)
add(c, t, n) ==
  IF t \in keys(c)
  THEN [p \in 1..Len(c) |-> IF c[p][1] = t THEN <<t, c[p][2] + n>> ELSE c[p]]
  ELSE Append(c, <<t, n>>)

\* Counter.update(tokens) that counts a token once per cell
RECURSIVE update_once(_, _)
update_once(c, tokens) ==
  IF tokens = <<>> THEN c
  ELSE LET t == Head(tokens)
           rest == SelectSeq(Tail(tokens), LAMBDA u : u # t)
       IN update_once(add(c, t, 1), rest)

\* counters[col] = Counter(tokens): the cell's counts replace the column's
RECURSIVE update_replace(_, _)
update_replace(c, tokens) ==
  IF tokens = <<>> THEN <<>>
  ELSE add(update_replace(c, SubSeq(tokens, 1, Len(tokens) - 1)),
           tokens[Len(tokens)], 1)

\* Counter.update(iterable of tokens)
RECURSIVE update(_, _)
update(c, tokens) ==
  IF tokens = <<>> THEN c
  ELSE update(add(c, Head(tokens), 1), Tail(tokens))

\* overall = Counter(counters[col]): the column's counts replace the total
update_mapping_replace(c, other) == other

\* overall.update(counters[col].keys()): each key of the column counts once
RECURSIVE update_mapping_keys(_, _)
update_mapping_keys(c, other) ==
  IF other = <<>> THEN c
  ELSE update_mapping_keys(add(c, Head(other)[1], 1), Tail(other))

\* Counter.update(mapping)
RECURSIVE update_mapping(_, _)
update_mapping(c, other) ==
  IF other = <<>> THEN c
  ELSE update_mapping(add(c, Head(other)[1], Head(other)[2]), Tail(other))

\* counters[col].update(tokens)
accumulate(cs, col, tokens) == [cs EXCEPT ![col] = update(@, tokens)]

\* ---------------------------------------------------- get_sorted_list
freq(x) == x[2]

\* sorted(items, key=freq) followed by a reversal: equal counts end up in
\* reverse insertion order
RECURSIVE get_sorted_list_reversed(_)
get_sorted_list_reversed(counter) ==
  IF counter = <<>> THEN <<>>
  ELSE LET sorted == get_sorted_list_reversed(SubSeq(counter, 1, Len(counter) - 1))
           x == counter[Len(counter)]
           n == Cardinality({p \in 1..Len(sorted) : freq(sorted[p]) > freq(x)})
       IN SubSeq(sorted, 1, n) \o <<x>> \o SubSeq(sorted, n + 1, Len(sorted))

\* sorted(counter.items(), key=lambda x: x[1], reverse=True): a stable sort,
\* so each item goes behind every earlier item of greater or equal count
RECURSIVE get_sorted_list(_)
get_sorted_list(counter) ==
  IF counter = <<>> THEN <<>>
  ELSE LET sorted == get_sorted_list(SubSeq(counter, 1, Len(counter) - 1))
           x == counter[Len(counter)]
           n == Cardinality({p \in 1..Len(sorted) : freq(sorted[p]) >= freq(x)})
       IN SubSeq(sorted, 1, n) \o <<x>> \o SubSeq(sorted, n + 1, Len(sorted))

\* ------------------------------------------------------------- helpers
Range(f) == {f[x] : x \in DOMAIN f}

max(a, b) == IF a >= b THEN a ELSE b

\* max_length left as the columns' maximum, the overall list not counted
final_max_length_columns(m, n) == m

\* max_length = max(max_length, len(overall_sorted))
final_max_length(m, n) == max(m, n)

\* the padding put in front: words.insert(0, ""), freqs.insert(0, 0)
RECURSIVE pad_front(_, _, _)
pad_front(list, fill, n) ==
  IF Len(list) < n THEN pad_front(<<fill>> \o list, fill, n) ELSE list

\* while len(words) < max_length: words.append(fill)
RECURSIVE pad(_, _, _)
pad(list, fill, n) ==
  IF Len(list) < n THEN pad(Append(list, fill), fill, n) ELSE list

\* [item[0] for item in sorted_list], [item[1] for item in sorted_list]
words_of(sorted_list) == [p \in 1..Len(sorted_list) |-> sorted_list[p][1]]
freqs_of(sorted_list) == [p \in 1..Len(sorted_list) |-> sorted_list[p][2]]

\* df_dict[key] = value
put(d, key, value) ==
  [x \in DOMAIN d \cup {key} |-> IF x = key THEN value ELSE d[x]]

Word(col) == col \o "_Word"
Frequency(col) == col \o "_Frequency"

\* ------------------------------------------------------------ the state
VARIABLES
  func,           \* tokenize_func
  data,           \* the table: a sequence of rows, each a map column -> cell
  columns,        \* the designated columns, in order
  pc,             \* where process_and_save stands
  k,              \* the number of the cell visit compute_counters is at
  counters,       \* column -> Counter
  calls,          \* the <<row, column index>> of every tokenize_func call made
  failed,         \* the language model has raised in this run
  j,              \* the loop index of build_master_dataframe's loops
  overall, sorted_data, max_length, overall_sorted, df_dict,
  file            \* the tables written to the output file: none until to_csv

vars == <<func, data, columns, pc, k, counters, calls, failed, j, overall,
          sorted_data, max_length, overall_sorted, df_dict, file>>

NoFile == <<>>

ColumnLists == UNION {[1..n -> ColNames] : n \in 0..Cardinality(ColNames)}

\* Only designated columns are ever read, so the others hold NaN throughout.
Rows(cols) ==
  {r \in [ColNames -> Cells] : \A c \in ColNames \ Range(cols) : r[c] = NaN}
TextCells(d) == {<<r, c>> \in (1..Len(d)) \X ColNames : d[r][c] # NaN}
Tables(cols) ==
  {d \in UNION {[1..n -> Rows(cols)] : n \in 0..MaxRows} :
     Cardinality(TextCells(d)) <= MaxTexts}

\* for _, row in data.iterrows(): for col in columns -- visit number v
visits(d, cols) == Len(d) * Len(cols)
row_at(cols, v) == ((v - 1) \div Len(cols)) + 1
col_at(cols, v) == ((v - 1) % Len(cols)) + 1
cell_at(d, cols, v) == d[row_at(cols, v)][cols[col_at(cols, v)]]

\* nlp raises on one of the texts the call for this cell hands it
nlp_fails(f, cell) ==
  \E p \in 1..Len(nlp_inputs(f, cell)) : nlp_raises(nlp_inputs(f, cell)[p])

\* compute_counters as a function of its arguments: the visits from number v
\* on, starting from the counters cs. ok is FALSE when tokenize_func raised.
RECURSIVE compute_counters_from(_, _, _, _, _)
compute_counters_from(d, cols, f, v, cs) ==
  IF v > visits(d, cols) THEN [ok |-> TRUE, counters |-> cs]
  ELSE LET r == visit(f, cell_at(d, cols, v))
       IN IF r.skip THEN compute_counters_from(d, cols, f, v + 1, cs)
          ELSE IF ~r.ok THEN [ok |-> FALSE, counters |-> cs]
          ELSE compute_counters_from(d, cols, f, v + 1,
                                     accumulate(cs, cols[col_at(cols, v)], r.tokens))

compute_counters(d, cols, f) ==
  compute_counters_from(d, cols, f, 1, [c \in Range(cols) |-> Counter])

\* the overall counter build_master_dataframe's first loop leaves after the
\* first n columns of cols
RECURSIVE overall_of(_, _, _)
overall_of(cs, cols, n) ==
  IF n = 0 THEN Counter
  ELSE update_mapping(overall_of(cs, cols, n - 1), cs[cols[n]])

\* State on entry to process_and_save, after counters = {col: Counter() ...}
Init ==
  /\ func \in Policies
  /\ columns \in ColumnLists
  /\ data \in Tables(columns)
  /\ pc = "compute_counters"
  /\ k = 1
  /\ counters = [c \in Range(columns) |-> Counter]
  /\ calls = <<>>
  /\ failed = FALSE
  /\ j = 1
  /\ overall = Counter
  /\ sorted_data = <<>>
  /\ max_length = 0
  /\ overall_sorted = <<>>
  /\ df_dict = <<>>
  /\ file = NoFile

build_vars == <<j, overall, sorted_data, max_length, overall_sorted, df_dict, file>>
input_vars == <<func, data, columns>>

\* ----------------------------------------------------- compute_counters
\* if pd.isna(cell): continue
SkipMissing ==
  /\ pc = "compute_counters"
  /\ k <= visits(data, columns)
  /\ visit(func, cell_at(data, columns, k)).skip
  /\ k' = k + 1
  /\ UNCHANGED <<input_vars, pc, counters, calls, failed, build_vars>>

\* tokens = tokenize_func(cell, nlp); counters[col].update(tokens)
TokenizeCell ==
  /\ pc = "compute_counters"
  /\ k <= visits(data, columns)
  /\ LET v == visit(func, cell_at(data, columns, k))
     IN /\ ~v.skip
        /\ v.ok
        /\ counters' = accumulate(counters, columns[col_at(columns, k)], v.tokens)
  /\ calls' = Append(calls, <<row_at(columns, k), col_at(columns, k)>>)
  /\ failed' = (failed \/ nlp_fails(func, cell_at(data, columns, k)))
  /\ k' = k + 1
  /\ UNCHANGED <<input_vars, pc, build_vars>>

\* tokenize_func raises: nothing catches it, process_and_save is left
CapabilityFailure ==
  /\ pc = "compute_counters"
  /\ k <= visits(data, columns)
  /\ LET v == visit(func, cell_at(data, columns, k))
     IN ~v.skip /\ ~v.ok
  /\ calls' = Append(calls, <<row_at(columns, k), col_at(columns, k)>>)
  /\ failed' = TRUE
  /\ pc' = "raised"
  /\ UNCHANGED <<input_vars, k, counters, build_vars>>

\* return counters; build_master_dataframe starts
ReturnCounters ==
  /\ pc = "compute_counters"
  /\ k > visits(data, columns)
  /\ pc' = "sort_columns"
  /\ j' = 1
  /\ overall' = Counter
  /\ sorted_data' = <<>>
  /\ max_length' = 0
  /\ UNCHANGED <<input_vars, k, counters, calls, failed, overall_sorted, df_dict, file>>

\* ----------------------------------------------- build_master_dataframe
\* first loop body, for col = columns[j]
SortColumn ==
  /\ pc = "sort_columns"
  /\ j <= Len(columns)
  /\ LET col == columns[j]
         sorted_list == get_sorted_list(counters[col])
     IN /\ sorted_data' = put(sorted_data, col, sorted_list)
        /\ overall' = update_mapping(overall, counters[col])
        /\ max_length' = max(max_length, Len(sorted_list))
  /\ j' = j + 1
  /\ UNCHANGED <<input_vars, pc, k, counters, calls, failed, overall_sorted, df_dict, file>>

\* overall_sorted = get_sorted_list(overall); max_length = max(...); df_dict = {}
SortOverall ==
  /\ pc = "sort_columns"
  /\ j > Len(columns)
  /\ overall_sorted' = get_sorted_list(overall)
  /\ max_length' = final_max_length(max_length, Len(get_sorted_list(overall)))
  /\ df_dict' = <<>>
  /\ j' = 1
  /\ pc' = "pad_columns"
  /\ UNCHANGED <<input_vars, k, counters, calls, failed, overall, sorted_data, file>>

\* second loop body, for col = columns[j]
PadColumn ==
  /\ pc = "pad_columns"
  /\ j <= Len(columns)
  /\ LET col == columns[j]
         words == pad(words_of(sorted_data[col]), "", max_length)
         freqs == pad(freqs_of(sorted_data[col]), 0, max_length)
     IN df_dict' = put(put(df_dict, Word(col), words), Frequency(col), freqs)
  /\ j' = j + 1
  /\ UNCHANGED <<input_vars, pc, k, counters, calls, failed, overall, sorted_data,
                 max_length, overall_sorted, file>>

\* the overall pair; return pd.DataFrame(df_dict)
PadOverall ==
  /\ pc = "pad_columns"
  /\ j > Len(columns)
  /\ LET overall_words == pad(words_of(overall_sorted), "", max_length)
         overall_freqs == pad(freqs_of(overall_sorted), 0, max_length)
     IN df_dict' = put(put(df_dict, "Overall_Word", overall_words),
                       "Overall_Frequency", overall_freqs)
  /\ pc' = "to_csv"
  /\ UNCHANGED <<input_vars, k, counters, calls, failed, j, overall, sorted_data,
                 max_length, overall_sorted, file>>

\* ----------------------------------------------------- process_and_save
\* master_df.to_csv(output_filename, index=False)
Save ==
  /\ pc = "to_csv"
  /\ file' = <<df_dict>>
  /\ pc' = "done"
  /\ UNCHANGED <<input_vars, k, counters, calls, failed, j, overall, sorted_data,
                 max_length, overall_sorted, df_dict>>

Next ==
  \/ SkipMissing
  \/ TokenizeCell
  \/ CapabilityFailure
  \/ ReturnCounters
  \/ SortColumn
  \/ SortOverall
  \/ PadColumn
  \/ PadOverall
  \/ Save

Spec == Init /\ [][Next]_vars

\* ---------------------------------------------------------- properties
Built == pc \in {"to_csv", "done"}
Ranked == pc \in {"pad_columns", "to_csv", "done"}

\* the columns the first loop of build_master_dataframe has gone through
Merged == IF pc = "sort_columns" THEN j - 1 ELSE IF Ranked THEN Len(columns) ELSE 0

RECURSIVE SumOverColumns(_, _)
SumOverColumns(t, n) ==
  IF n = 0 THEN 0 ELSE SumOverColumns(t, n - 1) + get(counters[columns[n]], t)

ColumnKeys(n) == UNION {keys(counters[columns[p]]) : p \in 1..n}

MaxOf(S) == IF S = {} THEN 0 ELSE CHOOSE m \in S : \A n \in S : n <= m

\* C1: the overall counter is the coordinate-wise sum of the counters of the
\* designated columns merged so far (all of them once it is ranked), and it
\* holds no token that is absent from every one of those column counters.
C1_OverallIsSum ==
  /\ keys(overall) = ColumnKeys(Merged)
  /\ \A t \in keys(overall) : get(overall, t) = SumOverColumns(t, Merged)
  /\ Ranked => keys(overall_sorted) = keys(overall)
  /\ Ranked => \A t \in keys(overall) : get(overall_sorted, t) = SumOverColumns(t, Len(columns))

C1_Witness ==
  /\ pc = "done"
  /\ Len(columns) = 2
  /\ columns[1] # columns[2]
  /\ \E t \in keys(overall) :
       /\ get(counters[columns[1]], t) >= 2
       /\ get(counters[columns[2]], t) >= 1
       /\ get(overall_sorted, t) >= 3

OutputKeys ==
  {Word(c) : c \in Range(columns)} \cup {Frequency(c) : c \in Range(columns)}
    \cup {"Overall_Word", "Overall_Frequency"}

\* C2: in the table build_master_dataframe returns, every word and frequency
\* sequence (each designated column's and the overall pair's) has length
\* max_length, the maximum length of the ranked lists, the overall one included.
C2_EqualLengths ==
  Built =>
    /\ DOMAIN df_dict = OutputKeys
    /\ \A key \in DOMAIN df_dict : Len(df_dict[key]) = max_length
    /\ max_length = MaxOf({Len(sorted_data[c]) : c \in Range(columns)}
                            \cup {Len(overall_sorted)})

C2_Witness ==
  /\ pc = "done"
  /\ \E c, d \in Range(columns) :
       /\ Len(sorted_data[c]) < Len(sorted_data[d])
       /\ Len(sorted_data[d]) < Len(overall_sorted)
       /\ Len(df_dict[Word(c)]) = Len(df_dict[Frequency(d)])
       /\ Len(df_dict[Word(c)]) = Len(df_dict["Overall_Word"])

PairIsPadded(words, freqs, ranked) ==
  /\ Len(words) = Len(freqs)
  /\ Len(words) >= Len(ranked)
  /\ \A p \in 1..Len(words) :
       IF p <= Len(ranked)
       THEN <<words[p], freqs[p]>> = ranked[p]
       ELSE <<words[p], freqs[p]>> = <<"", 0>>

\* C3: in every (words, frequencies) pair of the output table the entries up to
\* the length of the ranked list are that list's entries in order, and every
\* later entry is ("", 0): padding never precedes a genuine entry.
C3_PaddingAfterEntries ==
  Built =>
    /\ \A c \in Range(columns) :
         PairIsPadded(df_dict[Word(c)], df_dict[Frequency(c)], sorted_data[c])
    /\ PairIsPadded(df_dict["Overall_Word"], df_dict["Overall_Frequency"],
                    overall_sorted)

C3_Witness ==
  /\ pc = "done"
  /\ \E c \in Range(columns) :
       /\ Len(sorted_data[c]) >= 2
       /\ Len(sorted_data[c]) < max_length
       /\ df_dict[Word(c)][max_length] = ""
       /\ df_dict[Frequency(c)][max_length] = 0

\* C10: the overall ranked list is never shorter than a column's, max_length is
\* its length, which is the number of distinct tokens over the designated
\* columns, and the overall pair of the output holds no padding.
C10_OverallIsLongest ==
  /\ Ranked =>
       /\ \A c \in Range(columns) : Len(sorted_data[c]) <= Len(overall_sorted)
       /\ max_length = Len(overall_sorted)
       /\ Len(overall_sorted) = Cardinality(ColumnKeys(Len(columns)))
  /\ Built =>
       /\ df_dict["Overall_Word"] = words_of(overall_sorted)
       /\ df_dict["Overall_Frequency"] = freqs_of(overall_sorted)
       /\ \A p \in 1..Len(df_dict["Overall_Frequency"]) :
            df_dict["Overall_Frequency"][p] >= 1

C10_Witness ==
  /\ pc = "done"
  /\ Len(columns) = 2
  /\ Len(sorted_data[columns[1]]) = 2
  /\ Len(sorted_data[columns[2]]) = 1
  /\ Len(overall_sorted) = 3
  /\ max_length = 3

index(c, t) == CHOOSE p \in 1..Len(c) : c[p][1] = t

\* list is a permutation of counter's entries, non-increasing in count, with
\* entries of equal count in the counter's insertion order
IsRanking(list, counter) ==
  /\ Len(list) = Len(counter)
  /\ \A p \in 1..Len(counter) : \E q \in 1..Len(list) : list[q] = counter[p]
  /\ \A p, q \in 1..Len(list) :
       p < q =>
         /\ freq(list[p]) >= freq(list[q])
         /\ freq(list[p]) = freq(list[q]) =>
              index(counter, list[p][1]) < index(counter, list[q][1])

\* the first designated column whose counter holds t
FirstColumn(t) ==
  CHOOSE p \in 1..Len(columns) :
    /\ t \in keys(counters[columns[p]])
    /\ \A q \in 1..(p - 1) : t \notin keys(counters[columns[q]])

\* t was inserted into overall before u: earlier column, or the same column
\* and seen earlier inside it
InsertedBefore(t, u) ==
  \/ FirstColumn(t) < FirstColumn(u)
  \/ /\ FirstColumn(t) = FirstColumn(u)
     /\ index(counters[columns[FirstColumn(t)]], t)
          < index(counters[columns[FirstColumn(t)]], u)

\* C4: get_sorted_list returns a permutation of the counter's entries with
\* non-increasing counts and equal counts in insertion order; the overall
\* counter's insertion order is column order, then first-seen order in a column.
C4_StableRanking ==
  /\ \A c \in DOMAIN sorted_data : IsRanking(sorted_data[c], counters[c])
  /\ Ranked =>
       /\ IsRanking(overall_sorted, overall)
       /\ \A p, q \in 1..Len(overall) :
            p < q => InsertedBefore(overall[p][1], overall[q][1])

C4_Witness ==
  /\ pc = "done"
  /\ Len(columns) = 2
  /\ overall_sorted # overall
  /\ \E p \in 1..(Len(overall_sorted) - 1) :
       freq(overall_sorted[p]) = freq(overall_sorted[p + 1])
  /\ \E p, q \in 1..Len(overall) :
       FirstColumn(overall[p][1]) < FirstColumn(overall[q][1])
  /\ \E c \in Range(columns) : Len(sorted_data[c]) >= 2

\* how often t occurs in a token sequence
RECURSIVE Occurrences(_, _)
Occurrences(t, tokens) ==
  IF tokens = <<>> THEN 0
  ELSE (IF Head(tokens) = t THEN 1 ELSE 0) + Occurrences(t, Tail(tokens))

\* every token the tokenizer emitted for column c in the first n cell visits,
\* in order; a missing cell yields none
RECURSIVE Emitted(_, _)
Emitted(c, n) ==
  IF n = 0 THEN <<>>
  ELSE Emitted(c, n - 1)
       \o (IF columns[col_at(columns, n)] = c /\ cell_at(data, columns, n) # NaN
           THEN tokenize_func(func, cell_at(data, columns, n)).tokens
           ELSE <<>>)

\* C5: at every point of the aggregation pass and after it, counters[c][t] is
\* the number of times the tokenizer emitted t over the non-missing cells of
\* column c visited so far (once per occurrence), a token never emitted has no
\* entry, and every stored count is at least 1.
C5_CountsAreEmissions ==
  \A c \in Range(columns) :
    LET emitted == Emitted(c, k - 1)
    IN /\ keys(counters[c]) = Range(emitted)
       /\ \A t \in keys(counters[c]) : get(counters[c], t) = Occurrences(t, emitted)
       /\ \A p \in 1..Len(counters[c]) : counters[c][p][2] >= 1

C5_Witness ==
  /\ pc = "compute_counters"
  /\ k > visits(data, columns)
  /\ \E c \in Range(columns) : \E t \in keys(counters[c]) :
       /\ get(counters[c], t) = 3
       /\ \E v \in 1..visits(data, columns) :
            Occurrences(t, tokenize_func(func, cell_at(data, columns, v)).tokens) = 2

CountersReturned == pc = "sort_columns" /\ j = 1

MissingRow == [c \in ColNames |-> NaN]

\* the table d with an all-missing row put in front of row number p
InsertRow(d, p) == SubSeq(d, 1, p - 1) \o <<MissingRow>> \o SubSeq(d, p, Len(d))

\* C6: tokenize_func is never called on a missing cell, and the counters that
\* compute_counters returns are those it returns for the table with one more
\* row of missing cells, wherever that row is put.
C6_MissingCellsIgnored ==
  /\ \A p \in 1..Len(calls) : data[calls[p][1]][columns[calls[p][2]]] # NaN
  /\ CountersReturned =>
       \A p \in 1..(Len(data) + 1) :
         compute_counters(InsertRow(data, p), columns, func)
           = [ok |-> TRUE, counters |-> counters]

C6_Witness ==
  /\ CountersReturned
  /\ Len(data) = 2
  /\ Len(calls) = 2
  /\ \E c \in Range(columns) : data[1][c] = NaN /\ data[2][c] # NaN
  /\ \E c \in Range(columns) : Len(counters[c]) >= 2

\* C7: once the language model has raised, process_and_save is left at once and
\* no output file is ever written; a file is written only after every cell
\* visit is over, every non-missing designated cell was tokenized without a
\* failure, and the table is built.
C7_FailedRunWritesNothing ==
  /\ failed => (file = NoFile /\ pc = "raised")
  /\ pc = "raised" => failed
  /\ file # NoFile =>
       /\ pc = "done"
       /\ k > visits(data, columns)
       /\ \A v \in 1..visits(data, columns) :
            \/ cell_at(data, columns, v) = NaN
            \/ /\ \E p \in 1..Len(calls) :
                    calls[p] = <<row_at(columns, v), col_at(columns, v)>>
               /\ ~nlp_fails(func, cell_at(data, columns, v))
       /\ file = <<df_dict>>
       /\ DOMAIN df_dict = OutputKeys

C7_Witness ==
  /\ pc = "raised"
  /\ failed
  /\ file = NoFile
  /\ func = "tokenize_adjective_cell"
  /\ Len(calls) = 2
  /\ \E c \in Range(columns) : counters[c] # Counter

\* C8: no tokenizer emits the empty string, so no counter holds the key "" and
\* a word cell "" of the output table is always padding (frequency 0).
C8_EmptyStringNeverAToken ==
  /\ \A c \in Range(columns) : "" \notin keys(counters[c])
  /\ "" \notin keys(overall)
  /\ Built =>
       \A c \in Range(columns) \cup {"Overall"} :
         \A p \in 1..Len(df_dict[Word(c)]) :
           df_dict[Word(c)][p] = "" => df_dict[Frequency(c)][p] = 0

Orders(n) == {f \in [1..n -> 1..n] : \A p, q \in 1..n : f[p] = f[q] => p = q}

Permuted(s, f) == [p \in 1..Len(s) |-> s[f[p]]]

SameCounts(c1, c2) ==
  /\ keys(c1) = keys(c2)
  /\ \A t \in keys(c1) : get(c1, t) = get(c2, t)

\* C9: visiting the rows in any other order, and the designated columns in any
\* other order, compute_counters returns for every column a counter with the
\* same count for every token, and the overall counter built from them has the
\* same count for every token.
C9_CountsIgnoreOrder ==
  (pc = "pad_columns" /\ j = 1) =>
    \A f \in Orders(Len(data)) : \A g \in Orders(Len(columns)) :
      \A r \in {compute_counters(Permuted(data, f), Permuted(columns, g), func)} :
         /\ r.ok
         /\ \A c \in Range(columns) : SameCounts(r.counters[c], counters[c])
         /\ SameCounts(overall_of(r.counters, Permuted(columns, g), Len(columns)),
                       overall)

C9_Witness ==
  /\ pc = "pad_columns"
  /\ j = 1
  /\ Len(data) = 2
  /\ Len(columns) = 2
  /\ \E f \in Orders(Len(data)) : \E g \in Orders(Len(columns)) :
       LET r == compute_counters(Permuted(data, f), Permuted(columns, g), func)
       IN /\ \E c \in Range(columns) : r.counters[c] # counters[c]
          /\ overall_of(r.counters, Permuted(columns, g), Len(columns)) # overall
          /\ Len(overall) >= 3

=============================================================================
